---- MODULE Spec2Model ----
(***************************************************************************)
(* Adaptive-fee constant-product AMM (CPAMM_Rust/src/lib.rs).              *)
(*                                                                         *)
(* The model keeps the program's arithmetic but at a reduced integer       *)
(* width: the 64-bit words of the source are U64Mod-valued words, the      *)
(* 128-bit intermediates are U64Mod*U64Mod-valued, and the fixed-point     *)
(* constants (SCALE, BPS_DENOM, the depth factor k) are scaled down with   *)
(* them so that every product the source forms fits the model checker's    *)
(* integers while truncating casts and checked operations still bite.      *)
(*                                                                         *)
(* An instruction handler is an operator from the account data it was      *)
(* handed to a result (error tag, accounts as written so far). The         *)
(* program entry commits the result: Ok persists the accounts, an error    *)
(* aborts the transaction and nothing is persisted.                        *)
(***************************************************************************)
EXTENDS Integers, Sequences, FiniteSets, TLC

VARIABLES initialized, pool, ledger, last

vars == <<initialized, pool, ledger, last>>

(* ------------------------------ widths -------------------------------- *)

\* number of values of a u64 word of the model (2^64 in the source)
U64Mod == 16
\* tokens of each asset in the user's wallet when the pool is created
Funds == 3
\* largest amount a caller passes to an instruction
MaxAmount == 2

U64Max == U64Mod - 1
U128Max == U64Mod * U64Mod - 1
\* fee parameters are u16 words
U16Mod == U64Mod

\* Fixed-point scale for prices/EMA/slippage signals.
SCALE == 4
\* Basis points denominator
BPS_DENOM == 10
\* depth factor of the shallow-depth proxy
K_DEPTH == 2

Min(a, b) == IF a <= b THEN a ELSE b

\* `x as u64`
AsU64(x) == x % U64Mod
\* `x as u16`
AsU16(x) == x % U16Mod
\* u128::saturating_mul / saturating_add / saturating_sub
saturating_mul(a, b) == IF a * b > U128Max THEN U128Max ELSE a * b
saturating_add(a, b) == IF a + b > U128Max THEN U128Max ELSE a + b
saturating_sub(a, b) == IF a < b THEN 0 ELSE a - b
\* u128::checked_mul / checked_add succeed
mul_fits(a, b) == a * b <= U128Max
add_fits(a, b) == a + b <= U128Max

(* ------------------------------ helpers ------------------------------- *)

Val(e, v) == [err |-> e, val |-> v]

\* Spot price token0 in token1 (scaled).
spot_price_1e12(reserve0, reserve1) ==
    IF ~(reserve0 > 0 /\ reserve1 > 0) THEN Val("NoLiquidity", 0)
    ELSE IF ~mul_fits(reserve1, SCALE) THEN Val("MathOverflow", 0)
    ELSE Val("Ok", AsU64((reserve1 * SCALE) \div reserve0))

RECURSIVE isqrt_loop(_, _, _)
isqrt_loop(y, z, x) ==
    IF x < z THEN isqrt_loop(y, x, ((y \div x) + x) \div 2) ELSE z

\* Simple integer sqrt (Babylonian)
isqrt(y) == IF y = 0 THEN 0 ELSE isqrt_loop(y, y, (y \div 2) + 1)

\* EMA <- EMA + alpha * (price - EMA)
ema_update(ema, alpha_1e12, price_1e12) ==
    IF price_1e12 >= ema
    THEN LET diff == price_1e12 - ema
             delta == saturating_mul(diff, alpha_1e12) \div SCALE
         IN  AsU64(saturating_add(ema, delta))
    ELSE LET diff == ema - price_1e12
             delta == saturating_mul(diff, alpha_1e12) \div SCALE
         IN  AsU64(saturating_sub(ema, delta))

\* clamp_fee without its ceiling
clamp_fee_no_ceiling(raw_bps, min_fee_bps, max_fee_bps) ==
    IF raw_bps < min_fee_bps THEN min_fee_bps ELSE raw_bps

\* clamp of the raw fee to [min_fee_bps, max_fee_bps]
clamp_fee(raw_bps, min_fee_bps, max_fee_bps) ==
    LET lo == IF raw_bps < min_fee_bps THEN min_fee_bps ELSE raw_bps
    IN  IF lo > max_fee_bps THEN max_fee_bps ELSE lo

FeeRet(e, fee, vol, slip, shallow) ==
    [err |-> e, fee_bps |-> fee, vol_1e12 |-> vol, slip_1e12 |-> slip,
     shallow_1e12 |-> shallow]

\* Compute dynamic fee and its components (vol/slip/shallow).
compute_dynamic_fee(p, token_in_is_0, amount_in, r0, r1) ==
    IF ~(amount_in > 0) THEN FeeRet("ZeroAmount", 0, 0, 0, 0)
    ELSE IF ~mul_fits(r1, SCALE) THEN FeeRet("MathOverflow", 0, 0, 0, 0)
    ELSE
    LET rin == IF token_in_is_0 THEN r0 ELSE r1
        price_now == (r1 * SCALE) \div r0
        ema == p.ema_price_1e12
        absdiff == IF price_now >= ema THEN price_now - ema ELSE ema - price_now
    IN
    IF ema # 0 /\ ~mul_fits(absdiff, SCALE) THEN FeeRet("MathOverflow", 0, 0, 0, 0)
    ELSE
    LET vol_1e12 == IF ema = 0 THEN 0 ELSE (absdiff * SCALE) \div ema IN
    IF ~mul_fits(amount_in, SCALE) \/ ~add_fits(rin, amount_in)
    THEN FeeRet("MathOverflow", 0, vol_1e12, 0, 0)
    ELSE
    LET slip_1e12 == (amount_in * SCALE) \div (rin + amount_in)
        min_res == Min(r0, r1)
    IN
    IF ~mul_fits(min_res, SCALE) THEN FeeRet("MathOverflow", 0, vol_1e12, slip_1e12, 0)
    ELSE
    LET shallow_1e12 ==
            SCALE - ((min_res * SCALE) \div saturating_add(min_res, K_DEPTH))
    IN
    IF \/ ~mul_fits(p.beta_vol_bps_per1e12, vol_1e12)
       \/ ~mul_fits(p.gamma_slip_bps_per1e12, slip_1e12)
       \/ ~mul_fits(p.delta_shallow_bps_per1e12, shallow_1e12)
    THEN FeeRet("MathOverflow", 0, vol_1e12, slip_1e12, shallow_1e12)
    ELSE
    LET dyn_part_bps ==
              ((p.beta_vol_bps_per1e12 * vol_1e12) \div SCALE)
            + ((p.gamma_slip_bps_per1e12 * slip_1e12) \div SCALE)
            + ((p.delta_shallow_bps_per1e12 * shallow_1e12) \div SCALE)
    IN
    IF ~add_fits(p.min_fee_bps, dyn_part_bps)
    THEN FeeRet("MathOverflow", 0, vol_1e12, slip_1e12, shallow_1e12)
    ELSE
    LET raw_bps == clamp_fee(p.min_fee_bps + dyn_part_bps,
                             p.min_fee_bps, p.max_fee_bps)
    IN  FeeRet("Ok", AsU16(raw_bps), vol_1e12, slip_1e12, shallow_1e12)

(* --------------------------- token ledger ------------------------------ *)

TokRet(e, l) == [err |-> e, ledger |-> l]

\* token::transfer user -> vault
transfer_into_vault(l, slot, amount) ==
    IF slot = 0
    THEN IF l.user0 < amount THEN TokRet("InsufficientFunds", l)
         ELSE TokRet("Ok", [l EXCEPT !.user0 = @ - amount, !.vault0 = @ + amount])
    ELSE IF l.user1 < amount THEN TokRet("InsufficientFunds", l)
         ELSE TokRet("Ok", [l EXCEPT !.user1 = @ - amount, !.vault1 = @ + amount])

\* token::transfer vault -> user, signed by the pool
transfer_from_vault(l, slot, amount) ==
    IF slot = 0
    THEN IF l.vault0 < amount THEN TokRet("InsufficientFunds", l)
         ELSE TokRet("Ok", [l EXCEPT !.vault0 = @ - amount, !.user0 = @ + amount])
    ELSE IF l.vault1 < amount THEN TokRet("InsufficientFunds", l)
         ELSE TokRet("Ok", [l EXCEPT !.vault1 = @ - amount, !.user1 = @ + amount])

\* token::mint_to
mint_lp_shares(l, amount) ==
    IF l.lp_supply + amount > U64Max THEN TokRet("TokenOverflow", l)
    ELSE TokRet("Ok", [l EXCEPT !.lp_supply = @ + amount, !.user_lp = @ + amount])

\* token::burn
burn_lp_shares(l, amount) ==
    IF l.user_lp < amount THEN TokRet("InsufficientFunds", l)
    ELSE TokRet("Ok", [l EXCEPT !.lp_supply = @ - amount, !.user_lp = @ - amount])

\* `ctx.accounts.vaultN.amount`: the token account as it was deserialized
\* when the instruction was entered (`entry`); the handler never reloads it,
\* so transfers made by the handler (`now`) do not show in it.
vault_amount(entry, now, slot) ==
    IF slot = 0 THEN entry.vault0 ELSE entry.vault1

(* ---------------------------- instructions ----------------------------- *)

\* values a handler computes on its way, as they stand when it returns
NoOut == [shares |-> 0, amount0 |-> 0, amount1 |-> 0, fee_bps |-> 0,
          vol_1e12 |-> 0, amount_out |-> 0, r0 |-> 0, r1 |-> 0,
          fee_computed |-> FALSE]

\* a handler's return: the error tag, the accounts as the handler has
\* written them so far, and the values it computed
Ret(e, p, l, o) == [err |-> e, pool |-> p, ledger |-> l, out |-> o]

\* require!(min_fee_bps <= max_fee_bps, AmmError::BadBounds)
bounds_ok(min_fee_bps, max_fee_bps) == min_fee_bps <= max_fee_bps

\* the seven configuration fields written by initialize_pool and set_params
with_params(p, c) ==
    [p EXCEPT !.min_fee_bps = c.min_fee_bps,
              !.max_fee_bps = c.max_fee_bps,
              !.beta_vol_bps_per1e12 = c.beta_vol_bps_per1e12,
              !.gamma_slip_bps_per1e12 = c.gamma_slip_bps_per1e12,
              !.delta_shallow_bps_per1e12 = c.delta_shallow_bps_per1e12,
              !.ema_alpha_1e12 = c.ema_alpha_1e12,
              !.breaker_vol_threshold_1e12 = c.breaker_vol_threshold_1e12]

initialize_pool(p, l, signer, c) ==
    IF ~bounds_ok(c.min_fee_bps, c.max_fee_bps) THEN Ret("BadBounds", p, l, NoOut)
    ELSE Ret("Ok",
             with_params([p EXCEPT !.authority = signer,
                                   !.reserve0 = 0,
                                   !.reserve1 = 0,
                                   !.ema_price_1e12 = 0], c),
             l, NoOut)

\* authorized letting every signer through
authorized_anyone(p, signer) == TRUE

\* require_keys_eq!(pool.authority, ctx.accounts.authority.key(), NotAuthorized)
authorized(p, signer) == p.authority = signer

\* Admin: update parameters
set_params(p, l, signer, c) ==
    IF ~bounds_ok(c.min_fee_bps, c.max_fee_bps) THEN Ret("BadBounds", p, l, NoOut)
    ELSE IF ~authorized(p, signer) THEN Ret("NotAuthorized", p, l, NoOut)
    ELSE Ret("Ok", with_params(p, c), l, NoOut)

\* ratio_ok with the check made on one side only
ratio_ok_one_sided(p, amount0, amount1) ==
    (p.reserve0 > 0 /\ p.reserve1 > 0)
        => (p.reserve0 * amount1 <= p.reserve1 * amount0)

\* reserve0 * amount1 == reserve1 * amount0, enforced when reserves > 0
ratio_ok(p, amount0, amount1) ==
    (p.reserve0 > 0 /\ p.reserve1 > 0)
        => (p.reserve0 * amount1 = p.reserve1 * amount0)

\* ema_needs_init with the seeding dropped
ema_needs_init_never(p) == FALSE

\* `if pool.ema_price_1e12 == 0`: the EMA is seeded by the first spot price
ema_needs_init(p) == p.ema_price_1e12 = 0

\* refresh_ema leaving the EMA as it was
refresh_ema_skipped(p) == [err |-> "Ok", pool |-> p]

\* Update EMA: the spot price of the reserves just stored, smoothed into
\* ema_price_1e12
refresh_ema(p) ==
    LET price == spot_price_1e12(p.reserve0, p.reserve1) IN
    IF price.err # "Ok" THEN [err |-> price.err, pool |-> p]
    ELSE [err |-> "Ok",
          pool |-> [p EXCEPT !.ema_price_1e12 =
                                 ema_update(@, p.ema_alpha_1e12, price.val)]]

\* shares_ok accepting a deposit that mints nothing
shares_ok_always(shares_to_mint) == TRUE

\* require!(shares_to_mint > 0, AmmError::ZeroShares)
shares_ok(shares_to_mint) == shares_to_mint > 0

\* tail of add_liquidity: mint, save reserves and supply, refresh the EMA
add_liquidity_commit(p, l, shares_to_mint, new_reserve0, new_reserve1) ==
    LET o == [NoOut EXCEPT !.shares = shares_to_mint] IN
    IF ~shares_ok(shares_to_mint) THEN Ret("ZeroShares", p, l, o)
    ELSE
    LET m == mint_lp_shares(l, shares_to_mint) IN
    IF m.err # "Ok" THEN Ret(m.err, p, l, o)
    ELSE
    LET p1 == [p EXCEPT !.reserve0 = new_reserve0, !.reserve1 = new_reserve1] IN
    IF p1.total_lp_supply + shares_to_mint > U64Max
    THEN Ret("MathOverflow", p1, m.ledger, o)
    ELSE
    LET p2 == [p1 EXCEPT !.total_lp_supply = @ + shares_to_mint] IN
    IF p2.reserve0 > 0 /\ p2.reserve1 > 0
    THEN LET e == refresh_ema(p2) IN Ret(e.err, e.pool, m.ledger, o)
    ELSE Ret("Ok", p2, m.ledger, o)

\* Add liquidity (must match current price ratio when pool has liquidity).
add_liquidity(p, l, amount0, amount1) ==
    IF ~(amount0 > 0 /\ amount1 > 0) THEN Ret("ZeroAmount", p, l, NoOut)
    ELSE IF ~ratio_ok(p, amount0, amount1) THEN Ret("BadRatio", p, l, NoOut)
    ELSE
    LET t0 == transfer_into_vault(l, 0, amount0) IN
    IF t0.err # "Ok" THEN Ret(t0.err, p, l, NoOut)
    ELSE
    LET t1 == transfer_into_vault(t0.ledger, 1, amount1) IN
    IF t1.err # "Ok" THEN Ret(t1.err, p, t0.ledger, NoOut)
    ELSE
    LET l2 == t1.ledger
        new_bal0 == vault_amount(l, l2, 0)
        new_bal1 == vault_amount(l, l2, 1)
    IN
    IF p.total_lp_supply = 0
    THEN \* L0 = sqrt(x*y)
         IF ~mul_fits(new_bal0, new_bal1) THEN Ret("MathOverflow", p, l2, NoOut)
         ELSE
         LET shares == AsU64(isqrt(new_bal0 * new_bal1)) IN
         IF ema_needs_init(p)
         THEN LET price == spot_price_1e12(new_bal0, new_bal1) IN
              IF price.err # "Ok" THEN Ret(price.err, p, l2, NoOut)
              ELSE add_liquidity_commit(
                       [p EXCEPT !.ema_price_1e12 = price.val],
                       l2, shares, new_bal0, new_bal1)
         ELSE add_liquidity_commit(p, l2, shares, new_bal0, new_bal1)
    ELSE \* shares = min( dx/x * T, dy/y * T )
         LET t == p.total_lp_supply IN
         IF ~mul_fits(amount0, t) THEN Ret("MathOverflow", p, l2, NoOut)
         ELSE IF p.reserve0 = 0 THEN Ret("Panic", p, l2, NoOut)
         ELSE IF ~mul_fits(amount1, t) THEN Ret("MathOverflow", p, l2, NoOut)
         ELSE IF p.reserve1 = 0 THEN Ret("Panic", p, l2, NoOut)
         ELSE
         LET dx == (amount0 * t) \div p.reserve0
             dy == (amount1 * t) \div p.reserve1
             shares == AsU64(Min(dx, dy))
         IN  add_liquidity_commit(p, l2, shares, new_bal0, new_bal1)

\* pro_rata rounding up
pro_rata_ceil(shares, bal, total_lp_supply) ==
    (shares * bal + total_lp_supply - 1) \div total_lp_supply

\* pro-rata amount: shares * bal / total_lp_supply, truncated
pro_rata(shares, bal, total_lp_supply) == (shares * bal) \div total_lp_supply

\* Remove liquidity: burns LP and returns tokens pro-rata.
remove_liquidity(p, l, shares) ==
    IF ~(shares > 0) THEN Ret("ZeroShares", p, l, NoOut)
    ELSE IF ~(p.total_lp_supply >= shares) THEN Ret("InsufficientLP", p, l, NoOut)
    ELSE
    LET b == burn_lp_shares(l, shares) IN
    IF b.err # "Ok" THEN Ret(b.err, p, l, NoOut)
    ELSE
    LET bal0 == vault_amount(l, b.ledger, 0)
        bal1 == vault_amount(l, b.ledger, 1)
    IN
    IF ~mul_fits(shares, bal0) \/ ~mul_fits(shares, bal1)
    THEN Ret("MathOverflow", p, b.ledger, NoOut)
    ELSE
    LET amount0 == pro_rata(shares, bal0, p.total_lp_supply)
        amount1 == pro_rata(shares, bal1, p.total_lp_supply)
        o == [NoOut EXCEPT !.shares = shares,
                           !.amount0 = AsU64(amount0),
                           !.amount1 = AsU64(amount1)]
        \* Update pool supply before transfer out
        p1 == [p EXCEPT !.total_lp_supply = @ - shares]
        t0 == transfer_from_vault(b.ledger, 0, AsU64(amount0))
    IN
    IF t0.err # "Ok" THEN Ret(t0.err, p1, b.ledger, o)
    ELSE
    LET t1 == transfer_from_vault(t0.ledger, 1, AsU64(amount1)) IN
    IF t1.err # "Ok" THEN Ret(t1.err, p1, t0.ledger, o)
    ELSE
    LET l3 == t1.ledger
        p2 == [p1 EXCEPT !.reserve0 = vault_amount(l, l3, 0),
                         !.reserve1 = vault_amount(l, l3, 1)]
    IN
    IF p2.reserve0 > 0 /\ p2.reserve1 > 0
    THEN LET e == refresh_ema(p2) IN Ret(e.err, e.pool, l3, o)
    ELSE Ret("Ok", p2, l3, o)

\* (BPS_DENOM - fee_bps as u64): a u64 subtraction. With overflow checks
\* the build panics when fee_bps > BPS_DENOM, without them it wraps.
fee_num_of(fee_bps, overflow_checks) ==
    IF fee_bps <= BPS_DENOM THEN Val("Ok", BPS_DENOM - fee_bps)
    ELSE IF overflow_checks THEN Val("Panic", 0)
    ELSE Val("Ok", (U64Mod + BPS_DENOM - fee_bps) % U64Mod)

\* amount_out_of with the gross input in the denominator
amount_out_gross_denominator(rin, rout, amount_in, fee_num) ==
    IF ~mul_fits(amount_in, fee_num) THEN Val("MathOverflow", 0)
    ELSE
    LET dx_fee == (amount_in * fee_num) \div BPS_DENOM IN
    IF ~mul_fits(rout, dx_fee) \/ ~add_fits(rin, amount_in)
    THEN Val("MathOverflow", 0)
    ELSE Val("Ok", (rout * dx_fee) \div (rin + amount_in))

\* x*y=k pricing with fee on amountIn
amount_out_of(rin, rout, amount_in, fee_num) ==
    IF ~mul_fits(amount_in, fee_num) THEN Val("MathOverflow", 0)
    ELSE
    LET dx_fee == (amount_in * fee_num) \div BPS_DENOM IN
    IF ~mul_fits(rout, dx_fee) \/ ~add_fits(rin, dx_fee)
    THEN Val("MathOverflow", 0)
    ELSE Val("Ok", (rout * dx_fee) \div (rin + dx_fee))

\* Swap with adaptive fee and a circuit breaker on excessive volatility.
swap(p, l, token_in_is_0, amount_in, overflow_checks) ==
    IF ~(amount_in > 0) THEN Ret("ZeroAmount", p, l, NoOut)
    ELSE
    LET tin == transfer_into_vault(l, IF token_in_is_0 THEN 0 ELSE 1, amount_in) IN
    IF tin.err # "Ok" THEN Ret(tin.err, p, l, NoOut)
    ELSE
    LET l1 == tin.ledger
        r0 == vault_amount(l, l1, 0)
        r1 == vault_amount(l, l1, 1)
        o0 == [NoOut EXCEPT !.r0 = r0, !.r1 = r1]
    IN
    IF ~(r0 > 0 /\ r1 > 0) THEN Ret("NoLiquidity", p, l1, o0)
    ELSE
    LET f == compute_dynamic_fee(p, token_in_is_0, amount_in, r0, r1) IN
    IF f.err # "Ok" THEN Ret(f.err, p, l1, o0)
    ELSE
    LET o1 == [o0 EXCEPT !.fee_bps = f.fee_bps, !.vol_1e12 = f.vol_1e12,
                         !.fee_computed = TRUE]
    IN
    IF ~(f.vol_1e12 <= p.breaker_vol_threshold_1e12) THEN Ret("VolTooHigh", p, l1, o1)
    ELSE
    LET rin == IF token_in_is_0 THEN r0 ELSE r1
        rout == IF token_in_is_0 THEN r1 ELSE r0
        fee_num == fee_num_of(f.fee_bps, overflow_checks)
    IN
    IF fee_num.err # "Ok" THEN Ret(fee_num.err, p, l1, o1)
    ELSE
    LET priced == amount_out_of(rin, rout, amount_in, fee_num.val) IN
    IF priced.err # "Ok" THEN Ret(priced.err, p, l1, o1)
    ELSE
    LET amount_out == priced.val
        o2 == [o1 EXCEPT !.amount_out = AsU64(amount_out)]
    IN
    IF ~(amount_out > 0) THEN Ret("AmountOutZero", p, l1, o2)
    ELSE
    LET tout == transfer_from_vault(l1, IF token_in_is_0 THEN 1 ELSE 0,
                                    AsU64(amount_out))
    IN
    IF tout.err # "Ok" THEN Ret(tout.err, p, l1, o2)
    ELSE
    LET l2 == tout.ledger
        p1 == [p EXCEPT !.reserve0 = vault_amount(l, l2, 0),
                        !.reserve1 = vault_amount(l, l2, 1)]
        e == refresh_ema(p1)
    IN  Ret(e.err, e.pool, l2, o2)

(* ------------------------------- state -------------------------------- *)

Signers == {"admin", "mallory"}

Params(mn, mx, b, g, d, a, thr) ==
    [min_fee_bps |-> mn, max_fee_bps |-> mx, beta_vol_bps_per1e12 |-> b,
     gamma_slip_bps_per1e12 |-> g, delta_shallow_bps_per1e12 |-> d,
     ema_alpha_1e12 |-> a, breaker_vol_threshold_1e12 |-> thr]

\* the argument tuples passed to initialize_pool / set_params
ParamChoices ==
    { Params(1, 3, 2, 4, 1, SCALE \div 2, U64Max),
      Params(0, 0, 0, 0, 0, SCALE, SCALE \div 4),
      Params(3, 1, 0, 0, 0, SCALE, U64Max),
      Params(BPS_DENOM + 1, BPS_DENOM + 2, 0, 0, 0, 2 * SCALE, U64Max) }

NoParams == Params(0, 0, 0, 0, 0, 0, 0)

\* struct Pool before initialize_pool has run
Pool0 ==
    [authority |-> "none", total_lp_supply |-> 0, reserve0 |-> 0, reserve1 |-> 0,
     min_fee_bps |-> 0, max_fee_bps |-> 0, beta_vol_bps_per1e12 |-> 0,
     gamma_slip_bps_per1e12 |-> 0, delta_shallow_bps_per1e12 |-> 0,
     ema_price_1e12 |-> 0, ema_alpha_1e12 |-> 0,
     breaker_vol_threshold_1e12 |-> 0]

\* the token accounts: the two vaults, the user's wallets, the LP mint
Ledger0(funds) ==
    [vault0 |-> 0, vault1 |-> 0, user0 |-> funds, user1 |-> funds,
     user_lp |-> 0, lp_supply |-> 0]

NoArgs == [signer |-> "none", params |-> NoParams, amount0 |-> 0, amount1 |-> 0,
           shares |-> 0, token_in_is_0 |-> FALSE, amount_in |-> 0]

\* The last call: the instruction, the accounts it was entered with, its
\* error tag and whether it had written to an account when it returned; its
\* arguments and the values it computed when it committed.
Call(op, args, r) ==
    [op |-> op, err |-> r.err, pre_pool |-> pool, pre_ledger |-> ledger,
     touched |-> (r.pool # pool \/ r.ledger # ledger),
     args |-> IF r.err = "Ok" THEN args ELSE NoArgs,
     out |-> IF r.err = "Ok" THEN r.out ELSE NoOut]

InitWith(funds) ==
    /\ initialized = FALSE
    /\ pool = Pool0
    /\ ledger = Ledger0(funds)
    /\ last = [op |-> "none", err |-> "Ok", pre_pool |-> Pool0,
               pre_ledger |-> Ledger0(funds), touched |-> FALSE,
               args |-> NoArgs, out |-> NoOut]

Init == InitWith(Funds)

\* commit that persists whatever the handler had written
commit_always(p, l, r) == [pool |-> r.pool, ledger |-> r.ledger]

\* The program entry: a handler that returns Ok has its accounts persisted;
\* one that returns an error (or panics) aborts the transaction, and every
\* account keeps the data it had when the instruction was entered.
commit(p, l, r) ==
    IF r.err = "Ok" THEN [pool |-> r.pool, ledger |-> r.ledger]
    ELSE [pool |-> p, ledger |-> l]

Apply(r) ==
    LET c == commit(pool, ledger, r)
    IN  /\ pool' = c.pool
        /\ ledger' = c.ledger

(* ------------------------------ actions ------------------------------- *)

\* the pool account is created by the call (`init`), so it succeeds once
InitializePool ==
    /\ ~initialized
    /\ \E c \in ParamChoices :
         LET r == initialize_pool(pool, ledger, "admin", c) IN
         /\ Apply(r)
         /\ initialized' = (r.err = "Ok")
         /\ last' = Call("initialize_pool",
                         [NoArgs EXCEPT !.signer = "admin", !.params = c], r)

SetParams ==
    /\ initialized
    /\ \E signer \in Signers, c \in ParamChoices :
         LET r == set_params(pool, ledger, signer, c) IN
         /\ Apply(r)
         /\ last' = Call("set_params",
                         [NoArgs EXCEPT !.signer = signer, !.params = c], r)
    /\ UNCHANGED initialized

AddLiquidityOf(Deposits) ==
    /\ initialized
    /\ \E d \in Deposits :
         LET amount0 == d[1]
             amount1 == d[2]
             r == add_liquidity(pool, ledger, amount0, amount1)
         IN
         /\ Apply(r)
         /\ last' = Call("add_liquidity",
                         [NoArgs EXCEPT !.amount0 = amount0, !.amount1 = amount1], r)
    /\ UNCHANGED initialized

RemoveLiquidityOf(Shares) ==
    /\ initialized
    /\ \E shares \in Shares :
         LET r == remove_liquidity(pool, ledger, shares) IN
         /\ Apply(r)
         /\ last' = Call("remove_liquidity", [NoArgs EXCEPT !.shares = shares], r)
    /\ UNCHANGED initialized

Swap ==
    /\ initialized
    /\ \E token_in_is_0 \in BOOLEAN, amount_in \in 0..MaxAmount,
          overflow_checks \in BOOLEAN :
         LET r == swap(pool, ledger, token_in_is_0, amount_in, overflow_checks) IN
         /\ Apply(r)
         /\ last' = Call("swap",
                         [NoArgs EXCEPT !.token_in_is_0 = token_in_is_0,
                                        !.amount_in = amount_in], r)
    /\ UNCHANGED initialized

\* The vaults are ordinary token accounts: a holder can credit them with a
\* plain token transfer that does not go through the program.
DirectTransferOf(Amounts) ==
    /\ initialized
    /\ \E slot \in {0, 1}, amount \in Amounts :
         LET t == transfer_into_vault(ledger, slot, amount) IN
         /\ t.err = "Ok"
         /\ ledger' = t.ledger
         /\ last' = Call("transfer",
                         [NoArgs EXCEPT !.amount0 = IF slot = 0 THEN amount ELSE 0,
                                        !.amount1 = IF slot = 1 THEN amount ELSE 0],
                         [err |-> "Ok", pool |-> pool, ledger |-> t.ledger,
                          out |-> NoOut])
    /\ UNCHANGED <<initialized, pool>>

AddLiquidity == AddLiquidityOf((0..MaxAmount) \X (0..MaxAmount))
RemoveLiquidity == RemoveLiquidityOf(0..MaxAmount)
DirectTransfer == DirectTransferOf(1..MaxAmount)

Next ==
    \/ InitializePool
    \/ SetParams
    \/ AddLiquidity
    \/ RemoveLiquidity
    \/ Swap
    \/ DirectTransfer

Spec == Init /\ [][Next]_vars

(* A second specification: liquidity provision alone, with a larger wallet  *)
(* and larger balanced deposits, so that the share supply can come near    *)
(* the top of the u64 range.                                               *)

\* tokens of each asset in the wallet under SpecLiq
FundsLiq == 11
\* amounts deposited (on both sides) and share counts redeemed under SpecLiq
LiqAmounts == {1, 2, 4, 6}
LiqShares == {1, 4}

InitLiq == InitWith(FundsLiq)

AddLiquidityLiq == AddLiquidityOf({<<a, a>> : a \in LiqAmounts})
RemoveLiquidityLiq == RemoveLiquidityOf(LiqShares)
\* direct transfers are taken only to seed a vault that holds nothing
DirectTransferLiq ==
    /\ DirectTransferOf({1})
    /\ \/ ledger.vault0 = 0 /\ ledger'.vault0 = 1
       \/ ledger.vault1 = 0 /\ ledger'.vault1 = 1

NextLiq ==
    \/ InitializePool
    \/ AddLiquidityLiq
    \/ RemoveLiquidityLiq
    \/ DirectTransferLiq

SpecLiq == InitLiq /\ [][NextLiq]_vars

(* A third specification for the arithmetic helpers on their own: the      *)
(* initial state draws the arguments, one step applies a helper to them.   *)

\* the values of a u64 word
MathWords == 0..U64Max

InitMath ==
    /\ initialized = FALSE
    /\ pool = Pool0
    /\ ledger = Ledger0(0)
    /\ \E a \in MathWords, b \in MathWords, c \in MathWords, d \in 0..BPS_DENOM :
         last = [op |-> "none", err |-> "Ok", val |-> 0, args |-> <<a, b, c, d>>]

CallMath(op, r) ==
    /\ last.op = "none"
    /\ last' = [last EXCEPT !.op = op, !.err = r.err, !.val = r.val]
    /\ UNCHANGED <<initialized, pool, ledger>>

\* spot_price_1e12(reserve0, reserve1)
SpotPrice ==
    CallMath("spot_price_1e12", spot_price_1e12(last.args[1], last.args[2]))

\* ema_update(&mut ema, alpha_1e12, price_1e12)
EmaUpdate ==
    CallMath("ema_update",
             Val("Ok", ema_update(last.args[1], last.args[2], last.args[3])))

\* the pricing step of swap on (rin, rout, amount_in, fee_num), entered with
\* both reserves positive
AmountOut ==
    /\ last.args[1] > 0 /\ last.args[2] > 0
    /\ CallMath("amount_out",
                amount_out_of(last.args[1], last.args[2], last.args[3],
                              last.args[4]))

NextMath ==
    \/ SpotPrice
    \/ EmaUpdate
    \/ AmountOut

SpecMath == InitMath /\ [][NextMath]_vars

(* ------------------------------- claims ------------------------------- *)

OkCall(op) == last.op = op /\ last.err = "Ok"

AmountsIn == 1..MaxAmount

\* C1: reserve0 == 0, reserve1 == 0 and total_lp_supply == 0 are all true
\* or all false in every reachable state.
C1_EmptyOrFunded ==
    /\ (pool.reserve0 = 0) <=> (pool.reserve1 = 0)
    /\ (pool.reserve1 = 0) <=> (pool.total_lp_supply = 0)

FeeInBounds(p, fee_bps) == p.min_fee_bps <= fee_bps /\ fee_bps <= p.max_fee_bps

\* C2: the fee compute_dynamic_fee returns to a swap lies between the stored
\* min_fee_bps and max_fee_bps, for every swap a reachable pool can be sent
\* and for the swap that was last executed.
C2_FeeWithinBounds ==
    /\ \A dir \in BOOLEAN, amount_in \in AmountsIn :
         LET r == swap(pool, ledger, dir, amount_in, TRUE) IN
         r.out.fee_computed => FeeInBounds(pool, r.out.fee_bps)
    /\ OkCall("swap") => FeeInBounds(last.pre_pool, last.out.fee_bps)

\* a swap was executed whose fee was pushed above the floor by the signals
C2_Witness ==
    /\ OkCall("swap")
    /\ last.pre_pool.min_fee_bps < last.out.fee_bps
    /\ last.out.fee_bps <= last.pre_pool.max_fee_bps

VolSignal(r0, r1, ema) ==
    LET price == (r1 * SCALE) \div r0
        d == IF price >= ema THEN price - ema ELSE ema - price
    IN  (d * SCALE) \div ema

\* C4: a swap whose volatility signal on the post-deposit reserves exceeds
\* breaker_vol_threshold is rejected with VolTooHigh and changes nothing,
\* and every swap that succeeds had a signal within the threshold.
C4_BreakerOnPostDeposit ==
    /\ \A dir \in BOOLEAN, amount_in \in AmountsIn :
         LET tin == transfer_into_vault(ledger, IF dir THEN 0 ELSE 1, amount_in)
             r == swap(pool, ledger, dir, amount_in, TRUE)
             c == commit(pool, ledger, r)
         IN  (/\ tin.err = "Ok"
              /\ tin.ledger.vault0 > 0 /\ tin.ledger.vault1 > 0
              /\ pool.ema_price_1e12 > 0
              /\ VolSignal(tin.ledger.vault0, tin.ledger.vault1,
                           pool.ema_price_1e12) > pool.breaker_vol_threshold_1e12)
             => (r.err = "VolTooHigh" /\ c.pool = pool /\ c.ledger = ledger)
    /\ (OkCall("swap") /\ last.pre_pool.ema_price_1e12 > 0) =>
         LET v0 == last.pre_ledger.vault0
                   + (IF last.args.token_in_is_0 THEN last.args.amount_in ELSE 0)
             v1 == last.pre_ledger.vault1
                   + (IF last.args.token_in_is_0 THEN 0 ELSE last.args.amount_in)
         IN  VolSignal(v0, v1, last.pre_pool.ema_price_1e12)
               <= last.pre_pool.breaker_vol_threshold_1e12

\* C5: a deposit into a non-empty pool that breaks the reserve ratio is
\* rejected with BadRatio before any token is moved, and a successful deposit
\* into a non-empty pool satisfies the ratio on the stored reserves.
C5_BadRatioRejected ==
    /\ \A amount0 \in AmountsIn, amount1 \in AmountsIn :
         LET r == add_liquidity(pool, ledger, amount0, amount1) IN
         (/\ pool.reserve0 > 0 /\ pool.reserve1 > 0
          /\ pool.reserve0 * amount1 # pool.reserve1 * amount0)
         => (r.err = "BadRatio" /\ r.ledger = ledger /\ r.pool = pool)
    /\ (/\ OkCall("add_liquidity")
        /\ last.pre_pool.reserve0 > 0 /\ last.pre_pool.reserve1 > 0)
       => last.pre_pool.reserve0 * last.args.amount1
            = last.pre_pool.reserve1 * last.args.amount0

\* an unbalanced deposit into a non-empty pool was rejected
C5_Witness ==
    /\ last.op = "add_liquidity" /\ last.err = "BadRatio"
    /\ pool.reserve0 > 0 /\ pool.reserve1 > 0
    /\ ~last.touched

\* C6: after a successful add_liquidity, remove_liquidity or swap the stored
\* reserves equal the vault balances as they stand after the transfers.
C6_ReservesArePostTransfer ==
    (last.err = "Ok" /\ last.op \in {"add_liquidity", "remove_liquidity", "swap"})
    => (pool.reserve0 = ledger.vault0 /\ pool.reserve1 = ledger.vault1)

\* C7: a successful deposit into a pool without shares mints
\* floor(sqrt(balance0 * balance1)) of the post-deposit vault balances and
\* stores it as the supply; isqrt is the floor square root, isqrt(0) = 0.
C7_FirstDepositShares ==
    (OkCall("add_liquidity") /\ last.pre_pool.total_lp_supply = 0) =>
        LET s == last.out.shares
            k == ledger.vault0 * ledger.vault1
        IN  /\ s * s <= k
            /\ k < (s + 1) * (s + 1)
            /\ pool.total_lp_supply = s
            /\ isqrt(0) = 0
            /\ \A n \in 0..U128Max :
                 /\ isqrt(n) * isqrt(n) <= n
                 /\ n < (isqrt(n) + 1) * (isqrt(n) + 1)

\* C8 as stated: every successful deposit into a pool without shares leaves
\* ema_price equal to the spot price of the resulting reserves.
C8_EmaIsSpotAfterEmptyDeposit ==
    (OkCall("add_liquidity") /\ last.pre_pool.total_lp_supply = 0)
    => pool.ema_price_1e12 = spot_price_1e12(pool.reserve0, pool.reserve1).val

\* C8 amended: a successful deposit into a pool without shares leaves
\* ema_price equal to the spot price of the resulting reserves when ema_price
\* was 0 before the call; when it was not (a deposit after the pool was
\* drained) the stored EMA is smoothed toward that price by ema_update.
C8_EmaSeededOnlyWhenZero ==
    (OkCall("add_liquidity") /\ last.pre_pool.total_lp_supply = 0) =>
        LET price == spot_price_1e12(pool.reserve0, pool.reserve1).val IN
        IF last.pre_pool.ema_price_1e12 = 0
        THEN pool.ema_price_1e12 = price
        ELSE pool.ema_price_1e12 =
                 ema_update(last.pre_pool.ema_price_1e12,
                            last.pre_pool.ema_alpha_1e12, price)

\* the first deposit seeded the EMA under a smoothing factor below SCALE
C8_Witness ==
    /\ OkCall("add_liquidity")
    /\ last.pre_pool.total_lp_supply = 0
    /\ last.pre_pool.ema_price_1e12 = 0
    /\ last.pre_pool.ema_alpha_1e12 < SCALE
    /\ pool.ema_price_1e12 > 0

\* C10: a successful remove_liquidity pays floor(shares * balance_i / S) of
\* each asset out of the vault, lowers the supply by shares and pays no more
\* than the proportional share.
C10_ProRataWithdrawal ==
    OkCall("remove_liquidity") =>
        LET S == last.pre_pool.total_lp_supply
            sh == last.args.shares
            b0 == last.pre_ledger.vault0
            b1 == last.pre_ledger.vault1
            a0 == last.pre_ledger.vault0 - ledger.vault0
            a1 == last.pre_ledger.vault1 - ledger.vault1
        IN  /\ a0 = (sh * b0) \div S /\ a1 = (sh * b1) \div S
            /\ last.out.amount0 = a0 /\ last.out.amount1 = a1
            /\ ledger.user0 = last.pre_ledger.user0 + a0
            /\ ledger.user1 = last.pre_ledger.user1 + a1
            /\ pool.total_lp_supply = S - sh
            /\ ledger.lp_supply = last.pre_ledger.lp_supply - sh
            /\ a0 * S <= sh * b0 /\ a1 * S <= sh * b1
            /\ a0 <= b0 /\ a1 <= b1

\* a withdrawal was paid whose amount was truncated
C10_Witness ==
    /\ OkCall("remove_liquidity")
    /\ last.out.amount0 > 0
    /\ last.out.amount0 * last.pre_pool.total_lp_supply
         < last.args.shares * last.pre_ledger.vault0

\* C9: a successful deposit into a pool that has shares mints
\* min(floor(amount0 * supply / reserve0), floor(amount1 * supply / reserve1))
\* on the stored pre-deposit reserves and supply, adds exactly that number to
\* the supply, and the number is not reduced modulo the u64 range.
C9_ProportionalShares ==
    (OkCall("add_liquidity") /\ last.pre_pool.total_lp_supply > 0) =>
        LET t == last.pre_pool.total_lp_supply
            dx == (last.args.amount0 * t) \div last.pre_pool.reserve0
            dy == (last.args.amount1 * t) \div last.pre_pool.reserve1
        IN  /\ last.out.shares = Min(dx, dy)
            /\ pool.total_lp_supply = t + Min(dx, dy)
            /\ ledger.lp_supply = last.pre_ledger.lp_supply + Min(dx, dy)

ReserveOps == {"add_liquidity", "remove_liquidity", "swap"}

\* C11: a successful swap pays floor(reserveOut * d / (reserveIn + d)) with
\* d = floor(amountIn * (BPS_DENOM - fee_bps) / BPS_DENOM) on the reserves it
\* priced with; the amount is positive and below reserveOut, so the output
\* vault is never emptied.
C11_SwapPricing ==
    OkCall("swap") =>
        LET dir == last.args.token_in_is_0
            rin == IF dir THEN last.out.r0 ELSE last.out.r1
            rout == IF dir THEN last.out.r1 ELSE last.out.r0
            fee == last.out.fee_bps
            paid == IF dir THEN last.pre_ledger.vault1 - ledger.vault1
                    ELSE last.pre_ledger.vault0 - ledger.vault0
        IN  /\ fee <= BPS_DENOM
            /\ LET d == (last.args.amount_in * (BPS_DENOM - fee)) \div BPS_DENOM
               IN  last.out.amount_out = (rout * d) \div (rin + d)
            /\ paid = last.out.amount_out
            /\ last.out.amount_out > 0
            /\ last.out.amount_out < rout
            /\ (IF dir THEN ledger.vault1 ELSE ledger.vault0) > 0

\* the seven configuration fields of a pool
Config(p) ==
    Params(p.min_fee_bps, p.max_fee_bps, p.beta_vol_bps_per1e12,
           p.gamma_slip_bps_per1e12, p.delta_shallow_bps_per1e12,
           p.ema_alpha_1e12, p.breaker_vol_threshold_1e12)

\* C13 as stated: a set_params call by a signer other than the stored
\* authority fails with NotAuthorized whatever its arguments, and leaves the
\* configuration unchanged.
C13_NonAuthorityNotAuthorized ==
    initialized =>
        \A signer \in Signers, c \in ParamChoices :
            LET r == set_params(pool, ledger, signer, c) IN
            signer # pool.authority
                => (r.err = "NotAuthorized" /\ commit(pool, ledger, r).pool = pool)

\* C13 amended: a set_params call by a signer other than the stored authority
\* always fails and leaves the configuration unchanged; the error is BadBounds
\* when min_fee_bps > max_fee_bps (the bounds are checked first) and
\* NotAuthorized otherwise. A set_params that succeeded was signed by the
\* authority, and no other instruction but initialize_pool writes the
\* configuration.
C13_NonAuthorityRejected ==
    /\ initialized =>
        \A signer \in Signers, c \in ParamChoices :
            LET r == set_params(pool, ledger, signer, c) IN
            signer # pool.authority
                => /\ r.err = (IF c.min_fee_bps > c.max_fee_bps
                               THEN "BadBounds" ELSE "NotAuthorized")
                   /\ r.pool = pool
                   /\ commit(pool, ledger, r).pool = pool
    /\ OkCall("set_params") => last.args.signer = last.pre_pool.authority
    /\ Config(pool) # Config(last.pre_pool)
         => (last.err = "Ok" /\ last.op \in {"initialize_pool", "set_params"})

\* a set_params call was rejected with NotAuthorized in a pool whose
\* configuration the authority had set
C13_Witness ==
    /\ last.op = "set_params" /\ last.err = "NotAuthorized"
    /\ pool.authority = "admin"
    /\ Config(pool) \in ParamChoices

\* the EMA as it stands when the refresh at the end of the last call reads it:
\* the first deposit seeds it with the spot price before the refresh
EmaBeforeRefresh ==
    IF /\ last.op = "add_liquidity"
       /\ last.pre_pool.total_lp_supply = 0
       /\ last.pre_pool.ema_price_1e12 = 0
    THEN spot_price_1e12(pool.reserve0, pool.reserve1).val
    ELSE last.pre_pool.ema_price_1e12

RefreshedCall ==
    /\ last.err = "Ok" /\ last.op \in ReserveOps
    /\ pool.reserve0 > 0 /\ pool.reserve1 > 0

\* C14: after a successful add_liquidity, remove_liquidity or swap that
\* leaves both stored reserves positive, ema_price is ema_update of the EMA
\* held before the update, ema_alpha and the spot price of the reserves the
\* call stored.
C14_EmaRefreshed ==
    RefreshedCall =>
        pool.ema_price_1e12 =
            ema_update(EmaBeforeRefresh, last.pre_pool.ema_alpha_1e12,
                       spot_price_1e12(pool.reserve0, pool.reserve1).val)

\* a call stored reserves whose spot price differs from that of the reserves
\* it found, and the EMA moved
C14_Witness ==
    /\ RefreshedCall
    /\ last.pre_pool.reserve0 > 0 /\ last.pre_pool.reserve1 > 0
    /\ spot_price_1e12(pool.reserve0, pool.reserve1).val
         # spot_price_1e12(last.pre_pool.reserve0, last.pre_pool.reserve1).val
    /\ pool.ema_price_1e12 # last.pre_pool.ema_price_1e12
    /\ pool.ema_price_1e12
         # ema_update(last.pre_pool.ema_price_1e12, last.pre_pool.ema_alpha_1e12,
                      spot_price_1e12(last.pre_pool.reserve0,
                                      last.pre_pool.reserve1).val)

\* C15: each EMA update leaves ema_price between the EMA before the update
\* and the observed price, whatever ema_alpha the pool stores.
C15_EmaTowardPrice ==
    RefreshedCall =>
        LET price == spot_price_1e12(pool.reserve0, pool.reserve1).val
            e == EmaBeforeRefresh
        IN  /\ Min(e, price) <= pool.ema_price_1e12
            /\ pool.ema_price_1e12 <= (IF e >= price THEN e ELSE price)

\* a pool with both reserves positive and shares outstanding
NonEmpty ==
    pool.reserve0 > 0 /\ pool.reserve1 > 0 /\ pool.total_lp_supply > 0

Funded(amount0, amount1) == ledger.user0 >= amount0 /\ ledger.user1 >= amount1

\* C18 as stated: a deposit of positive amounts into a non-empty pool by a
\* funded caller succeeds if and only if reserve0 * amount1 equals
\* reserve1 * amount0.
C18_RatioSufficient ==
    \A amount0 \in AmountsIn, amount1 \in AmountsIn :
        (NonEmpty /\ Funded(amount0, amount1)) =>
            (add_liquidity(pool, ledger, amount0, amount1).err = "Ok"
             <=> pool.reserve0 * amount1 = pool.reserve1 * amount0)

\* the share count add_liquidity mints into a pool that has shares
SharesFor(amount0, amount1) ==
    AsU64(Min((amount0 * pool.total_lp_supply) \div pool.reserve0,
              (amount1 * pool.total_lp_supply) \div pool.reserve1))

\* C18 amended: a deposit of positive amounts into a non-empty pool by a
\* funded caller succeeds if and only if the ratio equality holds, the share
\* count computed for it is positive (else ZeroShares) and the supply with
\* the new shares fits the u64 range.
C18_RatioAndSharesSufficient ==
    \A amount0 \in AmountsIn, amount1 \in AmountsIn :
        (NonEmpty /\ Funded(amount0, amount1)) =>
            LET r == add_liquidity(pool, ledger, amount0, amount1) IN
            /\ r.err = "Ok"
                 <=> /\ pool.reserve0 * amount1 = pool.reserve1 * amount0
                     /\ SharesFor(amount0, amount1) > 0
                     /\ pool.total_lp_supply + SharesFor(amount0, amount1) <= U64Max
                     /\ ledger.lp_supply + SharesFor(amount0, amount1) <= U64Max
            /\ (/\ pool.reserve0 * amount1 = pool.reserve1 * amount0
                /\ SharesFor(amount0, amount1) = 0) => r.err = "ZeroShares"

\* a deposit into a non-empty pool passed the ratio check and was rejected
\* because it would mint no share
C18_Witness ==
    /\ last.op = "add_liquidity" /\ last.err = "ZeroShares"
    /\ NonEmpty
    /\ \E amount0 \in AmountsIn, amount1 \in AmountsIn :
         /\ Funded(amount0, amount1)
         /\ pool.reserve0 * amount1 = pool.reserve1 * amount0
         /\ add_liquidity(pool, ledger, amount0, amount1).err = "ZeroShares"

\* C19: a swap transfers the input, reads the post-deposit vault balances,
\* computes the fee and checks the breaker on them, checks amount_out > 0,
\* pays out, then stores the reserves and refreshes the EMA; a swap that
\* fails a check has paid nothing and stored nothing.
C19_SwapOrder ==
    \A dir \in BOOLEAN, amount_in \in AmountsIn, overflow_checks \in BOOLEAN :
        LET tin == transfer_into_vault(ledger, IF dir THEN 0 ELSE 1, amount_in)
            r == swap(pool, ledger, dir, amount_in, overflow_checks)
        IN  (initialized /\ tin.err = "Ok") =>
            /\ r.out.r0 = tin.ledger.vault0 /\ r.out.r1 = tin.ledger.vault1
            /\ r.err # "Ok" => (r.ledger = tin.ledger /\ r.pool = pool)
            /\ r.err = "Ok" =>
                 /\ r.out.fee_computed
                 /\ r.out.vol_1e12 <= pool.breaker_vol_threshold_1e12
                 /\ r.out.amount_out > 0
                 /\ r.ledger = transfer_from_vault(tin.ledger, IF dir THEN 1 ELSE 0,
                                                   r.out.amount_out).ledger

\* C20: in every reachable state total_lp_supply squared is at most
\* reserve0 * reserve1.
C20_SupplyBelowGeoMean ==
    pool.total_lp_supply * pool.total_lp_supply <= pool.reserve0 * pool.reserve1

\* C12 as stated: for fixed positive reserves and a fixed fee the output of
\* the pricing step is strictly increasing in amount_in.
C12_StrictlyIncreasing ==
    (last.op = "amount_out" /\ last.args[3] >= 1) =>
        \A b \in MathWords :
            b > last.args[3] =>
                last.val < amount_out_of(last.args[1], last.args[2], b,
                                         last.args[4]).val

\* C12 amended: for fixed positive reserves and a fixed fee the output of the
\* pricing step is non-decreasing in amount_in (the two truncating divisions
\* leave plateaus, so a larger input can buy the same output), and it never
\* fails on u64 arguments.
C12_NonDecreasing ==
    (last.op = "amount_out" /\ last.args[3] >= 1) =>
        /\ last.err = "Ok"
        /\ \A b \in MathWords :
             b > last.args[3] =>
                last.val <= amount_out_of(last.args[1], last.args[2], b,
                                          last.args[4]).val

\* the pricing step returned a positive output that a larger input also buys,
\* and a still larger input buys more
C12_Witness ==
    /\ last.op = "amount_out" /\ last.args[3] >= 1
    /\ last.val > 0
    /\ \E b \in MathWords :
         /\ b > last.args[3]
         /\ amount_out_of(last.args[1], last.args[2], b, last.args[4]).val
              = last.val
    /\ \E b \in MathWords :
         /\ b > last.args[3]
         /\ amount_out_of(last.args[1], last.args[2], b, last.args[4]).val
              > last.val

\* C16: spot_price_1e12 fails with NoLiquidity exactly when a reserve is 0;
\* on positive reserves it returns floor(reserve1 * SCALE / reserve0) itself
\* or fails with MathOverflow.
C16_SpotPriceExact ==
    last.op = "spot_price_1e12" =>
        LET reserve0 == last.args[1]
            reserve1 == last.args[2]
        IN  /\ last.err = "NoLiquidity" <=> (reserve0 = 0 \/ reserve1 = 0)
            /\ (reserve0 > 0 /\ reserve1 > 0) =>
                 \/ last.err = "MathOverflow"
                 \/ /\ last.err = "Ok"
                    /\ last.val = (reserve1 * SCALE) \div reserve0

\* C17: ema_update stores ema +/- alpha * |price - ema| / SCALE clamped to
\* the u64 range: U64Max when the sum exceeds it, 0 when the difference
\* would be negative.
C17_EmaSaturates ==
    last.op = "ema_update" =>
        LET ema == last.args[1]
            alpha == last.args[2]
            price == last.args[3]
            t == IF price >= ema
                 THEN ema + (alpha * (price - ema)) \div SCALE
                 ELSE ema - (alpha * (ema - price)) \div SCALE
        IN  last.val = (IF t > U64Max THEN U64Max ELSE IF t < 0 THEN 0 ELSE t)

\* C21: a successful swap does not lower the product of the stored reserves:
\* reserve0' * reserve1' >= reserve0 * reserve1.
C21_ProductNotDecreasing ==
    OkCall("swap") =>
        pool.reserve0 * pool.reserve1
            >= last.pre_pool.reserve0 * last.pre_pool.reserve1

\* C22: max_fee_bps never exceeds BPS_DENOM, so the fee of every swap is at
\* most BPS_DENOM, BPS_DENOM - fee_bps does not underflow and the input net
\* of fee lies between 0 and amount_in.
C22_FeeAtMostDenom ==
    /\ pool.max_fee_bps <= BPS_DENOM
    /\ \A dir \in BOOLEAN, amount_in \in AmountsIn, overflow_checks \in BOOLEAN :
         LET r == swap(pool, ledger, dir, amount_in, overflow_checks) IN
         r.out.fee_computed =>
             /\ r.out.fee_bps <= BPS_DENOM
             /\ r.err # "Panic"
             /\ fee_num_of(r.out.fee_bps, overflow_checks).val <= BPS_DENOM
             /\ (amount_in * fee_num_of(r.out.fee_bps, overflow_checks).val)
                    \div BPS_DENOM <= amount_in

\* C23: whenever shares are outstanding the stored EMA is positive.
C23_EmaPositiveWhenFunded ==
    pool.total_lp_supply > 0 => pool.ema_price_1e12 > 0

====
